---- MODULE Spec2Model ----
(***************************************************************************)
(* The 5-step grant research workflow of grant_research_app_simple.py as   *)
(* a state machine.  The Streamlit script is re-executed from top to       *)
(* bottom on every user interaction; one action of this module is one such *)
(* run: the widget the user operated, the handler that run executes and    *)
(* the write to st.session_state it performs.  Further sections hold the   *)
(* workflow session controller of the specification (SpecController),      *)
(* step 0 of the 7-step app grant_research_app.py (SpecWorkflow) and two   *)
(* browser sessions of the 5-step app (SpecSessions).                      *)
(***************************************************************************)
EXTENDS Integers, Sequences, FiniteSets, TLC

VARIABLES
    current_step,    \* st.session_state.current_step
    workflow_data,   \* st.session_state.workflow_data: key -> stored value
    request,         \* the interaction the last run served: button and form values
    feedback,        \* the st.success / st.error message the last run displayed
    now,             \* the value datetime.now() returns
    submitted_once,  \* history: step keys stored at least once in this session
    submitted_since_reset, \* history: step keys stored since the last reset
    round_trip,      \* history: a Previous Step immediately followed by a Next Step
    download,        \* the files the download buttons of the last run offer
    export_history,  \* history: the last two exports made from the same step records
    session,         \* the WorkflowSession of the controller: currentStep, stepRecords
    response,        \* what the controller's last operation returned
    ADK_AVAILABLE,   \* grant_research_app.py: the global set by initialize_adk()
    workflow,        \* grant_research_app.py: st.session_state.workflow
    widgets,         \* grant_research_app.py: the step 0 inputs and the button clicked
    result,          \* grant_research_app.py: what run_agent_step returned in the last run
    exception,       \* grant_research_app.py: the exception that ended the last run
    session_state,   \* st.session_state of each of two browser sessions
    served,          \* history: the session and the button the last run served
    callback_context, \* the CallbackContext the ADK passes to before_agent_callback
    call             \* the last call of a function of the agent package and its result

\* the state of the 5-step app
app_vars == <<current_step, workflow_data, request, feedback, now,
              submitted_once, submitted_since_reset, round_trip,
              download, export_history>>

\* the state of the workflow session controller
controller_vars == <<session, response>>

\* the state of the 7-step app
workflow_vars == <<ADK_AVAILABLE, workflow, widgets, result, exception>>

\* the state of the two browser sessions
sessions_vars == <<session_state, served>>

\* the state of the agent package
functions_vars == <<callback_context, call>>

\* the state outside the 5-step app
idle_vars == <<controller_vars, workflow_vars, sessions_vars, functions_vars>>

vars == <<app_vars, idle_vars>>

\* Python None
None == "None"

(***************************************************************************)
(* Text.  A Python str is a sequence of one-character strings, so that     *)
(* str.lower() and the substring test `sub in s` are computed.             *)
(***************************************************************************)
UpperCase == <<"A", "B", "C", "D", "E", "F", "G", "H", "I", "J", "K", "L", "M",
               "N", "O", "P", "Q", "R", "S", "T", "U", "V", "W", "X", "Y", "Z">>

LowerCase == <<"a", "b", "c", "d", "e", "f", "g", "h", "i", "j", "k", "l", "m",
               "n", "o", "p", "q", "r", "s", "t", "u", "v", "w", "x", "y", "z">>

lower_char(c) ==
    IF \E i \in DOMAIN UpperCase : UpperCase[i] = c
    THEN LowerCase[CHOOSE i \in DOMAIN UpperCase : UpperCase[i] = c]
    ELSE c

lower(s) == [i \in 1..Len(s) |-> lower_char(s[i])]

\* Python `sub in s`
contains(s, sub) ==
    \E i \in 0..(Len(s) - Len(sub)) : SubSeq(s, i + 1, i + Len(sub)) = sub

CANADA == <<"c", "a", "n", "a", "d", "a">>

PROVINCES == <<
    <<"o", "n", "t", "a", "r", "i", "o">>,
    <<"q", "u", "e", "b", "e", "c">>,
    <<"b", "c">>,
    <<"a", "l", "b", "e", "r", "t", "a">>,
    <<"m", "a", "n", "i", "t", "o", "b", "a">>,
    <<"s", "a", "s", "k", "a", "t", "c", "h", "e", "w", "a", "n">>,
    <<"n", "o", "v", "a", " ", "s", "c", "o", "t", "i", "a">>,
    <<"n", "e", "w", " ", "b", "r", "u", "n", "s", "w", "i", "c", "k">>,
    <<"p", "e", "i">>,
    <<"n", "e", "w", "f", "o", "u", "n", "d", "l", "a", "n", "d">>,
    <<"y", "u", "k", "o", "n">>,
    <<"n", "w", "t">>,
    <<"n", "u", "n", "a", "v", "u", "t">> >>

\* the mock verification of step 1
located_in_canada(org_location) ==
    \/ contains(lower(org_location), CANADA)
    \/ \E i \in DOMAIN PROVINCES : contains(lower(org_location), PROVINCES[i])

(***************************************************************************)
(* Form values the user can enter.                                         *)
(***************************************************************************)
Toronto == <<"T", "o", "r", "o", "n", "t", "o", ",", " ", "O", "n", "t", "a", "r", "i", "o">>
Boston  == <<"B", "o", "s", "t", "o", "n", ",", " ", "M", "A">>
Taipei  == <<"T", "a", "i", "p", "e", "i">>

OrgNames      == {"", "University of Toronto"}
OrgTypes      == {"University"}
OrgLocations  == {<<>>, Toronto, Boston, Taipei}
ResearchAreas == {<<"Health Sciences">>}

ProjectTitles       == {"", "AI for Health"}
ProjectDescriptions == {"", "Study of clinical notes"}

\* the sets of checkboxes grant_i the user ticks at step 4
TickedSets == {{0}, {0, 2}}

\* bound on the clock
MaxClock == 1

(***************************************************************************)
(* The session.                                                            *)
(***************************************************************************)
LAST_STEP == 5

STEPS == 1..LAST_STEP

\* the workflow_data key that marks a step as complete (can_proceed)
STEP_KEY == [k \in 1..4 |->
    CASE k = 1 -> "organization"
      [] k = 2 -> "profile"
      [] k = 3 -> "found_grants"
      [] k = 4 -> "selected_grants"]

Has(d, key) == key \in DOMAIN d

\* variant: dict.setdefault, an existing value is kept
Put_keep_existing(d, key, value) ==
    [k \in DOMAIN d \cup {key} |-> IF k \in DOMAIN d THEN d[k] ELSE value]

\* d[key] = value, the other keys kept
Put(d, key, value) ==
    [k \in DOMAIN d \cup {key} |-> IF k = key THEN value ELSE d[k]]

EmptyDict == [k \in {} |-> k]

\* the records of the steps: workflow_data without the generated application
step_records(d) == [k \in DOMAIN d \ {"application"} |-> d[k]]

NoDownload == [offered |-> FALSE]

\* a run that renders no download button; the exports remembered are those
\* made from the step records as they are now
NoExport ==
    /\ download' = NoDownload
    /\ export_history' = IF step_records(workflow_data') = step_records(workflow_data)
                         THEN export_history ELSE <<>>

NoRequest == [button |-> ""]

\* the state before the first run, the 7-step app's workflow object apart
InitExceptWorkflow ==
    /\ current_step = 1
    /\ workflow_data = EmptyDict
    /\ request = NoRequest
    /\ feedback = ""
    /\ now = 0
    /\ submitted_once = {}
    /\ submitted_since_reset = {}
    /\ round_trip = [phase |-> "idle"]
    /\ download = NoDownload
    /\ export_history = <<>>
    /\ session = [currentStep |-> 1, stepRecords |-> EmptyDict]
    /\ response = [op |-> None]
    /\ ADK_AVAILABLE = FALSE
    /\ widgets = [organization_name |-> "", institution_type |-> "University",
                  organization_location |-> "", button |-> ""]
    /\ result = [called |-> FALSE]
    /\ exception = None
    /\ session_state = [s \in {"tab 1", "tab 2"} |-> EmptyDict]
    /\ served = [session |-> None, button |-> ""]
    /\ callback_context = [state |-> EmptyDict]
    /\ call = [function |-> None]

Init ==
    /\ InitExceptWorkflow
    /\ workflow = [class |-> "NoneType"]

(***************************************************************************)
(* Step 1: Organization Verification.                                      *)
(***************************************************************************)
ORG_VERIFIED == "Organization verified as located in Canada!"
ORG_NOT_CANADA == "Organization does not appear to be located in Canada. Only Canadian organizations are eligible."

organization_record(org_name, org_type, org_location, research_areas) ==
    [name |-> org_name,
     type |-> org_type,
     location |-> org_location,
     research_areas |-> research_areas,
     canada_verified |-> TRUE,
     timestamp |-> now]

\* the form's fields marked with * are all filled in
org_form_complete(org_name, org_type, org_location) ==
    org_name # "" /\ org_type # "" /\ org_location # <<>>

\* variant: a failed check withdraws the record of an earlier verification
VerifyOrganization_revoking(org_name, org_type, org_location, research_areas) ==
    /\ current_step = 1
    /\ request' = [button |-> "Verify Organization", org_name |-> org_name,
                   org_type |-> org_type, org_location |-> org_location,
                   research_areas |-> research_areas]
    /\ IF org_form_complete(org_name, org_type, org_location)
       THEN IF located_in_canada(org_location)
            THEN /\ workflow_data' = Put(workflow_data, "organization",
                        organization_record(org_name, org_type, org_location, research_areas))
                 /\ feedback' = ORG_VERIFIED
                 /\ submitted_once' = submitted_once \cup {"organization"}
                 /\ submitted_since_reset' = submitted_since_reset \cup {"organization"}
            ELSE /\ workflow_data' = [k \in DOMAIN workflow_data \ {"organization"} |->
                                        workflow_data[k]]
                 /\ feedback' = ORG_NOT_CANADA
                 /\ UNCHANGED <<submitted_once, submitted_since_reset>>
       ELSE /\ feedback' = ""
            /\ UNCHANGED <<workflow_data, submitted_once, submitted_since_reset>>
    /\ round_trip' = [phase |-> "idle"]
    /\ UNCHANGED <<current_step, now>>
    /\ NoExport
    /\ UNCHANGED idle_vars

\* variant: a failed check stores the record as a manual override
VerifyOrganization_override(org_name, org_type, org_location, research_areas) ==
    /\ current_step = 1
    /\ request' = [button |-> "Verify Organization", org_name |-> org_name,
                   org_type |-> org_type, org_location |-> org_location,
                   research_areas |-> research_areas]
    /\ IF org_form_complete(org_name, org_type, org_location)
       THEN /\ workflow_data' = Put(workflow_data, "organization",
                    [organization_record(org_name, org_type, org_location, research_areas)
                        EXCEPT !.canada_verified = located_in_canada(org_location)])
            /\ feedback' = IF located_in_canada(org_location)
                           THEN ORG_VERIFIED ELSE ORG_NOT_CANADA
            /\ submitted_once' = submitted_once \cup {"organization"}
            /\ submitted_since_reset' = submitted_since_reset \cup {"organization"}
       ELSE /\ feedback' = ""
            /\ UNCHANGED <<workflow_data, submitted_once, submitted_since_reset>>
    /\ round_trip' = [phase |-> "idle"]
    /\ UNCHANGED <<current_step, now>>
    /\ NoExport
    /\ UNCHANGED idle_vars

VerifyOrganization(org_name, org_type, org_location, research_areas) ==
    /\ current_step = 1
    /\ request' = [button |-> "Verify Organization", org_name |-> org_name,
                   org_type |-> org_type, org_location |-> org_location,
                   research_areas |-> research_areas]
    /\ IF org_form_complete(org_name, org_type, org_location)
       THEN IF located_in_canada(org_location)
            THEN /\ workflow_data' = Put(workflow_data, "organization",
                        organization_record(org_name, org_type, org_location, research_areas))
                 /\ feedback' = ORG_VERIFIED
                 /\ submitted_once' = submitted_once \cup {"organization"}
                 /\ submitted_since_reset' = submitted_since_reset \cup {"organization"}
            ELSE /\ feedback' = ORG_NOT_CANADA
                 /\ UNCHANGED <<workflow_data, submitted_once, submitted_since_reset>>
       ELSE /\ feedback' = ""
            /\ UNCHANGED <<workflow_data, submitted_once, submitted_since_reset>>
    /\ round_trip' = [phase |-> "idle"]
    /\ UNCHANGED <<current_step, now>>
    /\ NoExport
    /\ UNCHANGED idle_vars

\* the button rendered below the verification result
ProceedToNextStep ==
    /\ current_step = 1
    /\ feedback = ORG_VERIFIED
    /\ current_step' = 2
    /\ request' = [button |-> "Proceed to Next Step"]
    /\ feedback' = ""
    /\ round_trip' = [phase |-> "idle"]
    /\ UNCHANGED <<workflow_data, now, submitted_once, submitted_since_reset>>
    /\ NoExport
    /\ UNCHANGED idle_vars

(***************************************************************************)
(* Step 2: Research Profile.                                               *)
(***************************************************************************)
PROFILE_GENERATED == "Research profile generated!"

FUNDING_MIN == 50000

FUNDING_MAX == 500000

strip(s) ==
    LET keep == {i \in DOMAIN s : s[i] # " "}
    IN  IF keep = {} THEN <<>>
        ELSE SubSeq(s, CHOOSE i \in keep : \A j \in keep : i <= j,
                       CHOOSE i \in keep : \A j \in keep : j <= i)

RECURSIVE split(_, _)
split(s, sep) ==
    IF \E i \in DOMAIN s : s[i] = sep
    THEN LET i == CHOOSE i \in DOMAIN s : s[i] = sep /\ \A j \in 1..(i - 1) : s[j] # sep
         IN  <<SubSeq(s, 1, i - 1)>> \o split(SubSeq(s, i + 1, Len(s)), sep)
    ELSE <<s>>

\* [k.strip() for k in keywords.split(",") if k.strip()]
keyword_list(keywords) ==
    LET parts == split(keywords, ",")
        stripped == [i \in DOMAIN parts |-> strip(parts[i])]
    IN  SelectSeq(stripped, LAMBDA k : k # <<>>)

Keywords == {<<"a", "i", ",", " ", ",", "m", "l">>}

\* workflow_data.get('organization', {})
org_data == IF Has(workflow_data, "organization") THEN workflow_data["organization"] ELSE EmptyDict

profile_record(project_title, project_description, keywords) ==
    [organization |-> org_data,
     project |-> [title |-> project_title,
                  description |-> project_description,
                  keywords |-> keyword_list(keywords),
                  duration |-> "1 year",
                  career_stage |-> "Graduate Student"],
     funding |-> [minimum |-> FUNDING_MIN, maximum |-> FUNDING_MAX, currency |-> "CAD"],
     eligibility |-> [canada_only |-> TRUE,
                      research_areas |-> IF Has(org_data, "research_areas")
                                         THEN org_data["research_areas"] ELSE <<>>],
     generated |-> now]

GenerateResearchProfile(project_title, project_description, keywords) ==
    /\ current_step = 2
    /\ request' = [button |-> "Generate Research Profile JSON", project_title |-> project_title,
                   project_description |-> project_description, keywords |-> keywords]
    /\ IF project_title # "" /\ project_description # ""
       THEN /\ workflow_data' = Put(workflow_data, "profile",
                   profile_record(project_title, project_description, keywords))
            /\ feedback' = PROFILE_GENERATED
            /\ submitted_once' = submitted_once \cup {"profile"}
            /\ submitted_since_reset' = submitted_since_reset \cup {"profile"}
       ELSE /\ feedback' = ""
            /\ UNCHANGED <<workflow_data, submitted_once, submitted_since_reset>>
    /\ round_trip' = [phase |-> "idle"]
    /\ UNCHANGED <<current_step, now>>
    /\ NoExport
    /\ UNCHANGED idle_vars

ProceedToGrantSearch ==
    /\ current_step = 2
    /\ feedback = PROFILE_GENERATED
    /\ current_step' = 3
    /\ request' = [button |-> "Proceed to Grant Search"]
    /\ feedback' = ""
    /\ round_trip' = [phase |-> "idle"]
    /\ UNCHANGED <<workflow_data, now, submitted_once, submitted_since_reset>>
    /\ NoExport
    /\ UNCHANGED idle_vars

(***************************************************************************)
(* Step 3: Grant Search.                                                   *)
(***************************************************************************)
GRANTS_FOUND == "Found 3 relevant Canadian grants!"

\* match_score in hundredths
mock_grants == <<
    [title |-> "CIHR Project Grant", agency |-> "Canadian Institutes of Health Research",
     amount |-> "$100,000 - $1,000,000", deadline |-> "2025-03-15", match_score |-> 92],
    [title |-> "NSERC Discovery Grant", agency |-> "Natural Sciences and Engineering Research Council",
     amount |-> "$25,000 - $500,000", deadline |-> "2025-02-01", match_score |-> 88],
    [title |-> "SSHRC Insight Grant", agency |-> "Social Sciences and Humanities Research Council",
     amount |-> "$7,000 - $400,000", deadline |-> "2025-02-15", match_score |-> 75] >>

SearchCanadianGrants ==
    /\ current_step = 3
    /\ request' = [button |-> "Search Canadian Grants"]
    /\ workflow_data' = Put(workflow_data, "found_grants", mock_grants)
    /\ feedback' = GRANTS_FOUND
    /\ submitted_once' = submitted_once \cup {"found_grants"}
    /\ submitted_since_reset' = submitted_since_reset \cup {"found_grants"}
    /\ round_trip' = [phase |-> "idle"]
    /\ UNCHANGED <<current_step, now>>
    /\ NoExport
    /\ UNCHANGED idle_vars

ProceedToGrantSelection ==
    /\ current_step = 3
    /\ feedback = GRANTS_FOUND
    /\ current_step' = 4
    /\ request' = [button |-> "Proceed to Grant Selection"]
    /\ feedback' = ""
    /\ round_trip' = [phase |-> "idle"]
    /\ UNCHANGED <<workflow_data, now, submitted_once, submitted_since_reset>>
    /\ NoExport
    /\ UNCHANGED idle_vars

(***************************************************************************)
(* Step 4: Human Selection.                                                *)
(***************************************************************************)
\* workflow_data.get('found_grants', [])
found_grants == IF Has(workflow_data, "found_grants") THEN workflow_data["found_grants"] ELSE <<>>

\* the grants whose checkbox grant_i is ticked, in the order of found_grants
checked_grants(grants, ticked) ==
    LET F[i \in 0..Len(grants)] ==
            IF i = 0 THEN <<>>
            ELSE IF (i - 1) \in ticked THEN Append(F[i - 1], grants[i]) ELSE F[i - 1]
    IN  F[Len(grants)]

\* variant: the selection is not stored before the cursor moves
ProceedWithSelectedGrants_no_store(ticked) ==
    /\ current_step = 4
    /\ found_grants # <<>>
    /\ checked_grants(found_grants, ticked) # <<>>
    /\ current_step' = 5
    /\ request' = [button |-> "Proceed with Selected Grants", ticked |-> ticked]
    /\ feedback' = ""
    /\ round_trip' = [phase |-> "idle"]
    /\ UNCHANGED <<workflow_data, now, submitted_once, submitted_since_reset>>
    /\ NoExport
    /\ UNCHANGED idle_vars

ProceedWithSelectedGrants(ticked) ==
    /\ current_step = 4
    /\ found_grants # <<>>
    /\ LET selected_grants == checked_grants(found_grants, ticked)
       IN  /\ selected_grants # <<>>
           /\ workflow_data' = Put(workflow_data, "selected_grants", selected_grants)
    /\ current_step' = 5
    /\ request' = [button |-> "Proceed with Selected Grants", ticked |-> ticked]
    /\ feedback' = ""
    /\ submitted_once' = submitted_once \cup {"selected_grants"}
    /\ submitted_since_reset' = submitted_since_reset \cup {"selected_grants"}
    /\ round_trip' = [phase |-> "idle"]
    /\ UNCHANGED now
    /\ NoExport
    /\ UNCHANGED idle_vars

(***************************************************************************)
(* Step 5: Application Generation.                                         *)
(***************************************************************************)
APPLICATION_GENERATED == "Application draft generated!"

KEY_ERROR == "KeyError: 'project'"

\* workflow_data.get('selected_grants', [])
selected_grants == IF Has(workflow_data, "selected_grants") THEN workflow_data["selected_grants"] ELSE <<>>

application_record(grant_to_generate, profile) ==
    [grant |-> grant_to_generate.title,
     agency |-> grant_to_generate.agency,
     project_title |-> profile.project.title,
     sections |-> [project_summary |-> <<"Summary for ", profile.project.title, "...">>,
                   objectives |-> "1. Primary objective... 2. Secondary objective...",
                   methodology |-> "Detailed methodology based on project description...",
                   timeline |-> "Year 1: ... Year 2: ...",
                   budget |-> <<"Total requested: ", profile.funding.minimum, " CAD">>,
                   team |-> "Principal Investigator and team details..."],
     generated |-> now]

\* the export action of the workflow-complete position
GenerateOffered == current_step = 5 /\ selected_grants # <<>>

\* json.dumps of workflow_data: the keys in insertion order, which is the
\* order of the steps because a key is first stored at its own step
WORKFLOW_KEYS == <<"organization", "profile", "found_grants", "selected_grants", "application">>

json_dumps_workflow(d) ==
    LET present == SelectSeq(WORKFLOW_KEYS, LAMBDA k : k \in DOMAIN d)
    IN  [i \in DOMAIN present |-> <<present[i], d[present[i]]>>]

\* json.dumps of the application: its items in the order of the literal
json_dumps_application(application) ==
    << <<"grant", application.grant>>,
       <<"agency", application.agency>>,
       <<"project_title", application.project_title>>,
       <<"sections", application.sections>>,
       <<"generated", application.generated>> >>

\* variant: workflow_data is dumped as it was before the draft was stored
download_buttons_stale(data, application) ==
    [offered |-> TRUE,
     workflow_json |-> json_dumps_workflow(workflow_data),
     workflow_file_name |-> <<"grant_workflow_", now, ".json">>,
     app_json |-> json_dumps_application(application),
     app_file_name |-> <<"application_draft_", now, ".json">>]

\* the two download buttons rendered after the draft
download_buttons(data, application) ==
    [offered |-> TRUE,
     workflow_json |-> json_dumps_workflow(data),
     workflow_file_name |-> <<"grant_workflow_", now, ".json">>,
     app_json |-> json_dumps_application(application),
     app_file_name |-> <<"application_draft_", now, ".json">>]

\* the exports remembered: the previous one and this one
remember_export(history, choice, output) ==
    LET entry == [choice |-> choice, output |-> output]
    IN  IF history = <<>> THEN <<entry>> ELSE <<history[Len(history)], entry>>

\* variant: the selection is consumed by the draft made from it
GenerateApplicationDraft_consuming(choice) ==
    /\ GenerateOffered
    /\ choice \in DOMAIN selected_grants
    /\ request' = [button |-> "Generate Application Draft", choice |-> choice]
    /\ Has(workflow_data, "profile")
    /\ LET application == application_record(selected_grants[choice],
                                             workflow_data["profile"])
           kept == [k \in DOMAIN workflow_data \ {"selected_grants"} |-> workflow_data[k]]
       IN  /\ workflow_data' = Put(kept, "application", application)
           /\ feedback' = APPLICATION_GENERATED
           /\ download' = download_buttons(workflow_data', application)
           /\ export_history' = remember_export(export_history, choice, download')
    /\ round_trip' = [phase |-> "idle"]
    /\ UNCHANGED <<current_step, now, submitted_once, submitted_since_reset>>
    /\ UNCHANGED idle_vars

GenerateApplicationDraft(choice) ==
    /\ GenerateOffered
    /\ choice \in DOMAIN selected_grants
    /\ request' = [button |-> "Generate Application Draft", choice |-> choice]
    /\ IF Has(workflow_data, "profile")
       THEN LET application == application_record(selected_grants[choice],
                                                  workflow_data["profile"])
            IN  /\ workflow_data' = Put(workflow_data, "application", application)
                /\ feedback' = APPLICATION_GENERATED
                /\ download' = download_buttons(workflow_data', application)
                /\ export_history' = remember_export(export_history, choice, download')
       ELSE /\ feedback' = KEY_ERROR
            /\ UNCHANGED <<workflow_data, export_history>>
            /\ download' = NoDownload
    /\ round_trip' = [phase |-> "idle"]
    /\ UNCHANGED <<current_step, now, submitted_once, submitted_since_reset>>
    /\ UNCHANGED idle_vars

StartNewWorkflow ==
    /\ current_step = 5
    /\ feedback = APPLICATION_GENERATED
    /\ current_step' = 1
    /\ workflow_data' = EmptyDict
    /\ request' = [button |-> "Start New Workflow"]
    /\ feedback' = ""
    /\ round_trip' = [phase |-> "idle"]
    /\ UNCHANGED <<now, submitted_once>>
    /\ submitted_since_reset' = {}
    /\ NoExport
    /\ UNCHANGED idle_vars

(***************************************************************************)
(* Navigation.                                                             *)
(***************************************************************************)
\* variant: without the `current_step > 1` guard
PreviousStep_unfloored ==
    /\ request' = [button |-> "Previous Step"]
    /\ current_step' = current_step - 1
    /\ feedback' = ""
    /\ round_trip' = [phase |-> "retreated", current_step |-> current_step,
                      workflow_data |-> workflow_data]
    /\ UNCHANGED <<workflow_data, now, submitted_once, submitted_since_reset>>
    /\ NoExport
    /\ UNCHANGED idle_vars

\* variant: going back discards what the step gone back to had stored
PreviousStep_clearing ==
    /\ request' = [button |-> "Previous Step"]
    /\ IF current_step > 1
       THEN /\ current_step' = current_step - 1
            /\ workflow_data' = [k \in DOMAIN workflow_data \ {STEP_KEY[current_step - 1]}
                                    |-> workflow_data[k]]
       ELSE UNCHANGED <<current_step, workflow_data>>
    /\ feedback' = ""
    /\ round_trip' = [phase |-> "retreated", current_step |-> current_step,
                      workflow_data |-> workflow_data]
    /\ UNCHANGED <<now, submitted_once, submitted_since_reset>>
    /\ NoExport
    /\ UNCHANGED idle_vars

PreviousStep ==
    /\ request' = [button |-> "Previous Step"]
    /\ IF current_step > 1
       THEN current_step' = current_step - 1
       ELSE UNCHANGED current_step
    /\ feedback' = ""
    /\ round_trip' = [phase |-> "retreated", current_step |-> current_step,
                      workflow_data |-> workflow_data]
    /\ UNCHANGED <<workflow_data, now, submitted_once, submitted_since_reset>>
    /\ NoExport
    /\ UNCHANGED idle_vars

\* variant: the cursor is reset, the data is kept
ResetWorkflow_keeps_data ==
    /\ request' = [button |-> "Reset Workflow"]
    /\ current_step' = 1
    /\ feedback' = ""
    /\ round_trip' = [phase |-> "idle"]
    /\ UNCHANGED <<workflow_data, now, submitted_once>>
    /\ submitted_since_reset' = {}
    /\ NoExport
    /\ UNCHANGED idle_vars

\* variant: the data is cleared, the cursor is kept
ResetWorkflow_keeps_step ==
    /\ request' = [button |-> "Reset Workflow"]
    /\ workflow_data' = EmptyDict
    /\ feedback' = ""
    /\ round_trip' = [phase |-> "idle"]
    /\ UNCHANGED <<current_step, now, submitted_once>>
    /\ submitted_since_reset' = {}
    /\ NoExport
    /\ UNCHANGED idle_vars

ResetWorkflow ==
    /\ request' = [button |-> "Reset Workflow"]
    /\ current_step' = 1
    /\ workflow_data' = EmptyDict
    /\ feedback' = ""
    /\ round_trip' = [phase |-> "idle"]
    /\ UNCHANGED <<now, submitted_once>>
    /\ submitted_since_reset' = {}
    /\ NoExport
    /\ UNCHANGED idle_vars

\* variant: no completeness test
can_proceed_always == current_step \in 1..4

\* variant: each step tests the key of the step after it
can_proceed_shifted ==
    \/ current_step = 1 /\ Has(workflow_data, "profile")
    \/ current_step = 2 /\ Has(workflow_data, "found_grants")
    \/ current_step = 3 /\ Has(workflow_data, "selected_grants")
    \/ current_step = 4 /\ Has(workflow_data, "application")

\* Next step button (only if current step is complete)
can_proceed ==
    \/ current_step = 1 /\ Has(workflow_data, "organization")
    \/ current_step = 2 /\ Has(workflow_data, "profile")
    \/ current_step = 3 /\ Has(workflow_data, "found_grants")
    \/ current_step = 4 /\ Has(workflow_data, "selected_grants")

NextStep ==
    /\ request' = [button |-> "Next Step"]
    /\ IF can_proceed /\ current_step < LAST_STEP
       THEN current_step' = current_step + 1
       ELSE UNCHANGED current_step
    /\ feedback' = ""
    /\ round_trip' = IF round_trip.phase = "retreated"
                     THEN [round_trip EXCEPT !.phase = "returned"]
                     ELSE [phase |-> "idle"]
    /\ UNCHANGED <<workflow_data, now, submitted_once, submitted_since_reset>>
    /\ NoExport
    /\ UNCHANGED idle_vars

(***************************************************************************)
(* A run that serves no button: a widget changed, or the click went to a   *)
(* button that this run does not render again.                             *)
(***************************************************************************)
Rerun ==
    /\ request # NoRequest
    /\ request' = NoRequest
    /\ feedback' = ""
    /\ UNCHANGED <<current_step, workflow_data, now, submitted_once, submitted_since_reset, round_trip>>
    /\ NoExport
    /\ UNCHANGED idle_vars

\* time passes between two runs
Tick ==
    /\ now < MaxClock
    /\ now' = now + 1
    /\ UNCHANGED <<current_step, workflow_data, request, feedback, submitted_once,
                   submitted_since_reset, round_trip>>
    /\ UNCHANGED <<download, export_history>>
    /\ UNCHANGED idle_vars

Next ==
    \/ \E org_name \in OrgNames, org_type \in OrgTypes, org_location \in OrgLocations,
          research_areas \in ResearchAreas :
            VerifyOrganization(org_name, org_type, org_location, research_areas)
    \/ ProceedToNextStep
    \/ \E project_title \in ProjectTitles, project_description \in ProjectDescriptions,
          keywords \in Keywords :
            GenerateResearchProfile(project_title, project_description, keywords)
    \/ ProceedToGrantSearch
    \/ SearchCanadianGrants
    \/ ProceedToGrantSelection
    \/ \E ticked \in TickedSets : ProceedWithSelectedGrants(ticked)
    \/ \E choice \in 1..3 : GenerateApplicationDraft(choice)
    \/ StartNewWorkflow
    \/ PreviousStep
    \/ ResetWorkflow
    \/ NextStep
    \/ Rerun
    \/ Tick

Spec == Init /\ [][Next]_vars

(***************************************************************************)
(* Properties of the session.                                              *)
(***************************************************************************)
\* the step at the cursor has its record stored
HasCurrentRecord ==
    current_step \in DOMAIN STEP_KEY /\ Has(workflow_data, STEP_KEY[current_step])

C2_StepInRange == current_step \in 1..LAST_STEP

\* Previous Step was clicked at step 1 and the cursor is still at 1
C2_Witness ==
    /\ round_trip.phase = "retreated"
    /\ round_trip.current_step = 1
    /\ current_step = 1

\* C3: every step before the cursor has its record stored, whichever
\* button moved the cursor.
C3_CursorBehindData ==
    \A k \in DOMAIN STEP_KEY : k < current_step => Has(workflow_data, STEP_KEY[k])

\* the step's own Proceed button moved the cursor to the last position
C3_Witness ==
    /\ request.button = "Proceed with Selected Grants"
    /\ current_step = 5
    /\ \A k \in DOMAIN STEP_KEY : Has(workflow_data, STEP_KEY[k])

\* C4 as stated: Previous Step immediately followed by Next Step restores
\* current_step and workflow_data, from every state, step 1 included.
C4_RoundTripEverywhere ==
    round_trip.phase = "returned" =>
        /\ current_step = round_trip.current_step
        /\ workflow_data = round_trip.workflow_data

\* C4 amended: Previous Step immediately followed by Next Step restores
\* current_step and workflow_data from every state with current_step > 1,
\* and from step 1 when the organization record is not stored.
C4_RoundTrip ==
    (/\ round_trip.phase = "returned"
     /\ \/ round_trip.current_step > 1
        \/ ~Has(round_trip.workflow_data, "organization")) =>
        /\ current_step = round_trip.current_step
        /\ workflow_data = round_trip.workflow_data

\* back from the last position and forward again
C4_Witness ==
    /\ round_trip.phase = "returned"
    /\ round_trip.current_step = 5
    /\ current_step = 5
    /\ request.button = "Next Step"

\* C5: after Reset Workflow (and after Start New Workflow) current_step is 1
\* and workflow_data is empty: no record, the generated application
\* included, survives.
C5_ResetClears ==
    request.button \in {"Reset Workflow", "Start New Workflow"} =>
        current_step = 1 /\ workflow_data = EmptyDict

\* a reset of a session that had stored the records of all four steps
C5_Witness ==
    /\ request.button = "Reset Workflow"
    /\ submitted_since_reset = {}
    /\ submitted_once = {"organization", "profile", "found_grants", "selected_grants"}
    /\ workflow_data = EmptyDict

\* the run stored `key` and left every other key of workflow_data as it was
StoredOnly(key) ==
    /\ DOMAIN workflow_data' = DOMAIN workflow_data \cup {key}
    /\ \A k \in DOMAIN workflow_data \ {key} : workflow_data'[k] = workflow_data[k]

\* the run displayed an error message
FailureReported == feedback' \notin {"", ORG_VERIFIED, PROFILE_GENERATED}

\* C6: a submission that lacks a required field of its step, or whose
\* organization location fails the Canada check, reports a validation
\* failure and leaves workflow_data and current_step as they were.
C6_InvalidSubmitReported ==
    [][(\/ \E org_name \in OrgNames, org_type \in OrgTypes, org_location \in OrgLocations,
              research_areas \in ResearchAreas :
                /\ VerifyOrganization(org_name, org_type, org_location, research_areas)
                /\ ~(org_form_complete(org_name, org_type, org_location)
                     /\ located_in_canada(org_location))
        \/ \E project_title \in ProjectTitles, project_description \in ProjectDescriptions,
              keywords \in Keywords :
                /\ GenerateResearchProfile(project_title, project_description, keywords)
                /\ (project_title = "" \/ project_description = ""))
       => /\ FailureReported
          /\ current_step' = current_step
          /\ workflow_data' = workflow_data]_vars

\* C7: a successful submission makes the step's entry of workflow_data hold
\* the submitted values, in place of any earlier record of that step, and
\* leaves the entries of all other steps unchanged.
C7_SubmitStores ==
    [][/\ \A org_name \in OrgNames, org_type \in OrgTypes, org_location \in OrgLocations,
             research_areas \in ResearchAreas :
            (VerifyOrganization(org_name, org_type, org_location, research_areas)
             /\ feedback' = ORG_VERIFIED) =>
                /\ StoredOnly("organization")
                /\ workflow_data'["organization"].name = org_name
                /\ workflow_data'["organization"].type = org_type
                /\ workflow_data'["organization"].location = org_location
                /\ workflow_data'["organization"].research_areas = research_areas
       /\ \A project_title \in ProjectTitles, project_description \in ProjectDescriptions,
             keywords \in Keywords :
            (GenerateResearchProfile(project_title, project_description, keywords)
             /\ feedback' = PROFILE_GENERATED) =>
                /\ StoredOnly("profile")
                /\ workflow_data'["profile"].project.title = project_title
                /\ workflow_data'["profile"].project.description = project_description
                /\ workflow_data'["profile"].project.keywords = keyword_list(keywords)
       /\ SearchCanadianGrants =>
                /\ StoredOnly("found_grants")
                /\ workflow_data'["found_grants"] = mock_grants
       /\ \A ticked \in TickedSets :
            ProceedWithSelectedGrants(ticked) =>
                /\ StoredOnly("selected_grants")
                /\ workflow_data'["selected_grants"] = checked_grants(found_grants, ticked)]_vars

\* the organization was submitted again after the profile was generated:
\* the new record replaced the old one, the profile still holds its copy
C7_Witness ==
    /\ request.button = "Verify Organization"
    /\ feedback = ORG_VERIFIED
    /\ Has(workflow_data, "organization")
    /\ Has(workflow_data, "profile")
    /\ workflow_data["organization"].location = request.org_location
    /\ workflow_data["profile"].organization.location # request.org_location

\* C8: Previous Step decrements current_step by exactly 1 when it is above 1
\* and leaves it at 1 otherwise; workflow_data is unchanged in both cases.
C8_RetreatKeepsRecords ==
    round_trip.phase = "retreated" =>
        /\ workflow_data = round_trip.workflow_data
        /\ current_step = IF round_trip.current_step > 1
                          THEN round_trip.current_step - 1 ELSE 1

\* back from the last position with all four records still stored
C8_Witness ==
    /\ round_trip.phase = "retreated"
    /\ round_trip.current_step = 5
    /\ current_step = 4
    /\ \A k \in DOMAIN STEP_KEY : Has(workflow_data, STEP_KEY[k])

\* C9: Next Step at step 4 with the selection stored moves the cursor to the
\* last position 5, Next Step at 5 leaves it at 5, and the export action
\* (Generate Application Draft) is offered whenever the cursor is at 5.
C9_CompleteAbsorbing ==
    /\ [](current_step = LAST_STEP => GenerateOffered)
    /\ [][NextStep =>
            /\ (current_step = 4 /\ Has(workflow_data, "selected_grants")
                    => current_step' = LAST_STEP)
            /\ (current_step = LAST_STEP => current_step' = LAST_STEP)]_vars

\* the last position was reached with Next Step and the export was produced there
C9_Witness ==
    /\ current_step = LAST_STEP
    /\ round_trip.phase = "returned"
    /\ GenerateOffered
    /\ Has(workflow_data, "application")

StepKeys == {STEP_KEY[k] : k \in DOMAIN STEP_KEY}

\* C10 as stated: a step's record is in workflow_data if and only if the
\* step was submitted successfully at least once during the session.
C10_PresentIffEverSubmitted ==
    \A key \in StepKeys : Has(workflow_data, key) <=> key \in submitted_once

\* C10 amended: a step's record is in workflow_data if and only if the step
\* was submitted successfully at least once since the session started or
\* was last reset.
C10_PresentIffSubmittedSinceReset ==
    \A key \in StepKeys : Has(workflow_data, key) <=> key \in submitted_since_reset

\* after a reset the organization was submitted again, the profile was not
C10_Witness ==
    /\ submitted_since_reset = {"organization"}
    /\ "profile" \in submitted_once
    /\ Has(workflow_data, "organization")
    /\ ~Has(workflow_data, "profile")

(***************************************************************************)
(* Properties of the export.                                               *)
(***************************************************************************)
\* two exports in a row of the same grant, no step record changed in between
TwoExports ==
    /\ Len(export_history) = 2
    /\ export_history[1].choice = export_history[2].choice

\* an export without what it takes from the clock
untimed(output) ==
    [workflow_json |->
        [i \in DOMAIN output.workflow_json |->
            IF output.workflow_json[i][1] = "application"
            THEN <<"application", [output.workflow_json[i][2] EXCEPT !.generated = 0]>>
            ELSE output.workflow_json[i]],
     app_json |->
        [i \in DOMAIN output.app_json |->
            IF output.app_json[i][1] = "generated"
            THEN <<"generated", 0>>
            ELSE output.app_json[i]]]

VerificationFailed ==
    /\ feedback = ORG_NOT_CANADA
    /\ request.button = "Verify Organization"

N == 4

STEP_NAMES == <<"organization", "grant_info", "eligibility", "project">>

SECTION_TITLES == <<"Organization Verification", "Grant Information",
                    "Eligibility Assessment", "Project Description">>

\* the names of the steps in the summary line
SUMMARY_NAMES == <<"Organization verification", "Grant info",
                   "Eligibility assessment", "Project description">>

\* the body of a section without a record: the one line MISSING
MISSING == {<<"MISSING">>}
MISSING_SECTIONS == "Missing Sections:"
ALL_COMPLETED == "All core sections completed."

\* the minimal required fields of each step
REQUIRED_FIELDS ==
    [organization |-> {"name", "type", "location"},
     grant_info |-> {"description"},
     eligibility |-> {"checklist"},
     project |-> {"description"}]

\* records a user can submit for a step
StepInputs ==
    [organization |->
        {[name |-> "University of Toronto", type |-> "University",
          location |-> "Toronto, Ontario"],
         [name |-> "McGill University", type |-> "University",
          location |-> "Montreal, Quebec"],
         [name |-> "University of Toronto", type |-> "University", location |-> ""]},
     grant_info |-> {[description |-> "NSERC Discovery Grant"], [description |-> ""]},
     eligibility |-> {[checklist |-> "all criteria met"], [checklist |-> ""]},
     project |-> {[description |-> "AI for healthcare"], [description |-> ""]}]

missing_fields(stepName, record) ==
    {f \in REQUIRED_FIELDS[stepName] : f \notin DOMAIN record \/ record[f] = ""}

submitStep(stepName, record) ==
    /\ IF missing_fields(stepName, record) = {}
       THEN /\ session' = [session EXCEPT !.stepRecords = Put(@, stepName, record)]
            /\ response' = [op |-> "submitStep", value |-> "success"]
       ELSE /\ UNCHANGED session
            /\ response' = [op |-> "submitStep", value |-> "validation failure",
                            missing |-> missing_fields(stepName, record)]
    /\ UNCHANGED <<app_vars, workflow_vars, sessions_vars, functions_vars>>

advance ==
    /\ IF session.currentStep <= N /\ Has(session.stepRecords, STEP_NAMES[session.currentStep])
       THEN /\ session' = [session EXCEPT !.currentStep = @ + 1]
            /\ response' = [op |-> "advance", value |-> "success"]
       ELSE /\ UNCHANGED session
            /\ response' = [op |-> "advance",
                            value |-> IF session.currentStep <= N
                                      THEN "OutOfSequence" ELSE "success"]
    /\ UNCHANGED <<app_vars, workflow_vars, sessions_vars, functions_vars>>

retreat ==
    /\ session' = [session EXCEPT !.currentStep = IF @ > 1 THEN @ - 1 ELSE 1]
    /\ response' = [op |-> "retreat", value |-> "success"]
    /\ UNCHANGED <<app_vars, workflow_vars, sessions_vars, functions_vars>>

reset ==
    /\ session' = [currentStep |-> 1, stepRecords |-> EmptyDict]
    /\ response' = [op |-> "reset", value |-> "success"]
    /\ UNCHANGED <<app_vars, workflow_vars, sessions_vars, functions_vars>>

\* the formatted content of a record: one line per field
format_record(record) == {<<f, ": ", record[f]>> : f \in DOMAIN record}

section(stepRecords, k) ==
    [heading |-> <<"[", k, "] ", SECTION_TITLES[k]>>,
     body |-> IF Has(stepRecords, STEP_NAMES[k])
              THEN format_record(stepRecords[STEP_NAMES[k]])
              ELSE MISSING]

\* the steps without a record, in step order
missing_steps(stepRecords) ==
    SelectSeq([k \in 1..N |-> k], LAMBDA k : ~Has(stepRecords, STEP_NAMES[k]))

summary_line(steps) ==
    IF steps = <<>>
    THEN <<ALL_COMPLETED>>
    ELSE <<MISSING_SECTIONS, [i \in DOMAIN steps |-> SUMMARY_NAMES[steps[i]]]>>

\* variant: sections of steps without a record are left out
exportDocument_skipping(s) ==
    [sections |-> SelectSeq([k \in 1..N |-> section(s.stepRecords, k)],
                            LAMBDA sec : sec.body # MISSING),
     summary |-> summary_line(missing_steps(s.stepRecords))]

\* variant: the summary always has the Missing Sections line
exportDocument_always_missing(s) ==
    [sections |-> [k \in 1..N |-> section(s.stepRecords, k)],
     summary |-> <<MISSING_SECTIONS,
                   [i \in DOMAIN missing_steps(s.stepRecords) |->
                        SUMMARY_NAMES[missing_steps(s.stepRecords)[i]]]>>]

exportDocument(s) ==
    [sections |-> [k \in 1..N |-> section(s.stepRecords, k)],
     summary |-> summary_line(missing_steps(s.stepRecords))]

ExportDocument ==
    /\ response' = [op |-> "exportDocument", value |-> exportDocument(session)]
    /\ UNCHANGED session
    /\ UNCHANGED <<app_vars, workflow_vars, sessions_vars, functions_vars>>

\* the status lines of the verifier agent, lower-cased
PASSED_MARKER ==
    <<"v", "e", "r", "i", "f", "i", "c", "a", "t", "i", "o", "n", " ", "s",
      "t", "a", "t", "u", "s", ":", " ", "p", "a", "s", "s", "e", "d">>

FAILED_MARKER ==
    <<"v", "e", "r", "i", "f", "i", "c", "a", "t", "i", "o", "n", " ", "s",
      "t", "a", "t", "u", "s", ":", " ", "f", "a", "i", "l", "e", "d">>

INCONCLUSIVE_MARKER ==
    <<"v", "e", "r", "i", "f", "i", "c", "a", "t", "i", "o", "n", " ", "s",
      "t", "a", "t", "u", "s", ":", " ", "i", "n", "c", "o", "n", "c", "l",
      "u", "s", "i", "v", "e">>

\* responses of the agent/search backend
ResponseTexts == {
    <<>>,
    <<"V", "E", "R", "I", "F", "I", "C", "A", "T", "I", "O", "N", " ", "S",
      "T", "A", "T", "U", "S", ":", " ", "P", "A", "S", "S", "E", "D", " ",
      "-", " ", "O", "R", "G", "A", "N", "I", "Z", "A", "T", "I", "O", "N",
      " ", "C", "O", "N", "F", "I", "R", "M", "E", "D", " ", "I", "N", " ",
      "C", "A", "N", "A", "D", "A">>,
    <<"V", "E", "R", "I", "F", "I", "C", "A", "T", "I", "O", "N", " ", "S",
      "T", "A", "T", "U", "S", ":", " ", "F", "A", "I", "L", "E", "D", " ",
      "-", " ", "O", "R", "G", "A", "N", "I", "Z", "A", "T", "I", "O", "N",
      "/", "L", "O", "C", "A", "T", "I", "O", "N", " ", "M", "I", "S", "M",
      "A", "T", "C", "H">>,
    <<"V", "E", "R", "I", "F", "I", "C", "A", "T", "I", "O", "N", " ", "S",
      "T", "A", "T", "U", "S", ":", " ", "F", "A", "I", "L", "E", "D", " ",
      "-", " ", "O", "R", "G", "A", "N", "I", "Z", "A", "T", "I", "O", "N",
      " ", "N", "O", "T", " ", "I", "N", " ", "C", "A", "N", "A", "D", "A">>,
    <<"V", "E", "R", "I", "F", "I", "C", "A", "T", "I", "O", "N", " ", "S",
      "T", "A", "T", "U", "S", ":", " ", "I", "N", "C", "O", "N", "C", "L",
      "U", "S", "I", "V", "E", " ", "-", " ", "M", "A", "N", "U", "A", "L",
      " ", "V", "E", "R", "I", "F", "I", "C", "A", "T", "I", "O", "N", " ",
      "R", "E", "Q", "U", "I", "R", "E", "D">>,
    <<"V", "e", "r", "i", "f", "i", "c", "a", "t", "i", "o", "n", " ", "S",
      "t", "a", "t", "u", "s", ":", " ", "P", "a", "s", "s", "e", "d">>,
    <<"R", "E", "C", "O", "M", "M", "E", "N", "D", "A", "T", "I", "O", "N",
      ":", " ", "P", "R", "O", "C", "E", "E", "D", " ", "w", "i", "t", "h",
      " ", "C", "a", "n", "a", "d", "i", "a", "n", " ", "g", "r", "a", "n",
      "t", " ", "r", "e", "s", "e", "a", "r", "c", "h">>,
    <<"V", "E", "R", "I", "F", "I", "C", "A", "T", "I", "O", "N", " ", "P",
      "A", "S", "S", "E", "D">>,
    <<"A", "g", "e", "n", "t", " ", "n", "o", "t", " ", "a", "v", "a", "i",
      "l", "a", "b", "l", "e", " ", "f", "o", "r", " ", "O", "r", "g", "a",
      "n", "i", "z", "a", "t", "i", "o", "n", " ", "V", "e", "r", "i", "f",
      "i", "c", "a", "t", "i", "o", "n">>,
    <<"V", "E", "R", "I", "F", "I", "C", "A", "T", "I", "O", "N", " ", "S",
      "T", "A", "T", "U", "S", ":", " ", "P", "A", "S", "S", "E", "D", " ",
      "V", "E", "R", "I", "F", "I", "C", "A", "T", "I", "O", "N", " ", "S",
      "T", "A", "T", "U", "S", ":", " ", "F", "A", "I", "L", "E", "D">> }

has_marker(text, marker) == contains(lower(text), marker)

recognized(text) ==
    \/ has_marker(text, PASSED_MARKER)
    \/ has_marker(text, FAILED_MARKER)
    \/ has_marker(text, INCONCLUSIVE_MARKER)

\* variant: a response without a marker is taken for a pass
interpretVerificationResponse_open(text) ==
    IF has_marker(text, FAILED_MARKER)
    THEN [verified |-> FALSE, confidence |-> "high", reason |-> "failed"]
    ELSE IF has_marker(text, INCONCLUSIVE_MARKER)
    THEN [verified |-> FALSE, confidence |-> "low", reason |-> "inconclusive"]
    ELSE [verified |-> TRUE, confidence |-> "high", reason |-> "passed"]

\* a failed or inconclusive status wins over a passed one; no status at all
\* is a failed verification
interpretVerificationResponse(text) ==
    IF has_marker(text, FAILED_MARKER)
    THEN [verified |-> FALSE, confidence |-> "high", reason |-> "failed"]
    ELSE IF has_marker(text, INCONCLUSIVE_MARKER)
    THEN [verified |-> FALSE, confidence |-> "low", reason |-> "inconclusive"]
    ELSE IF has_marker(text, PASSED_MARKER)
    THEN [verified |-> TRUE, confidence |-> "high", reason |-> "passed"]
    ELSE [verified |-> FALSE, confidence |-> "high", reason |-> "no recognized marker"]

InterpretVerificationResponse(text) ==
    /\ response' = [op |-> "interpretVerificationResponse", text |-> text,
                    value |-> interpretVerificationResponse(text)]
    /\ UNCHANGED session
    /\ UNCHANGED <<app_vars, workflow_vars, sessions_vars, functions_vars>>

NextController ==
    \/ \E k \in 1..N : \E record \in StepInputs[STEP_NAMES[k]] :
            submitStep(STEP_NAMES[k], record)
    \/ advance
    \/ retreat
    \/ reset
    \/ ExportDocument
    \/ \E text \in ResponseTexts : InterpretVerificationResponse(text)

SpecController == Init /\ [][NextController]_vars

(***************************************************************************)
(* Properties of the export document and of the verification verdict.      *)
(***************************************************************************)
Exported == response.op = "exportDocument"

\* C13: the export document has exactly one section per step, in the fixed
\* order [1] Organization Verification, [2] Grant Information,
\* [3] Eligibility Assessment, [4] Project Description, and a section is
\* marked MISSING if and only if stepRecords has no record for its step.
C13_OneSectionPerStep ==
    Exported =>
        LET sections == response.value.sections
        IN  /\ Len(sections) = 4
            /\ sections[1].heading = <<"[", 1, "] ", "Organization Verification">>
            /\ sections[2].heading = <<"[", 2, "] ", "Grant Information">>
            /\ sections[3].heading = <<"[", 3, "] ", "Eligibility Assessment">>
            /\ sections[4].heading = <<"[", 4, "] ", "Project Description">>
            /\ \A k \in 1..4 :
                    sections[k].body = {<<"MISSING">>}
                        <=> ~Has(session.stepRecords, STEP_NAMES[k])

\* an export of a session with the first and the last step recorded only
C13_Witness ==
    /\ Exported
    /\ DOMAIN session.stepRecords = {"organization", "project"}
    /\ response.value.sections[2].body = {<<"MISSING">>}
    /\ response.value.sections[4].body # {<<"MISSING">>}

\* C14: the summary of the export has a 'Missing Sections:' line if and only
\* if at least one step has no record, and that line names exactly the
\* missing steps in step order; otherwise the summary is
\* 'All core sections completed.'; never both.
C14_SummaryOfMissing ==
    Exported =>
        LET summary == response.value.summary
            absent == {k \in 1..4 : ~Has(session.stepRecords, STEP_NAMES[k])}
        IN  /\ (summary[1] = "Missing Sections:") <=> absent # {}
            /\ (summary[1] = "All core sections completed.") <=> absent = {}
            /\ absent = {} => Len(summary) = 1
            /\ absent # {} =>
                /\ Len(summary) = 2
                /\ Len(summary[2]) = Cardinality(absent)
                /\ \A i \in DOMAIN summary[2] :
                        \E k \in absent :
                            /\ summary[2][i] = SUMMARY_NAMES[k]
                            /\ Cardinality({j \in absent : j < k}) = i - 1

\* the export of the specification's scenario: only organization recorded
C14_Witness ==
    /\ Exported
    /\ DOMAIN session.stepRecords = {"organization"}
    /\ response.value.summary =
            <<"Missing Sections:",
              <<"Grant info", "Eligibility assessment", "Project description">> >>

Interpreted == response.op = "interpretVerificationResponse"

\* C16: a response text with no recognized marker is read as verified = false
\* with confidence = high, and verified = true is returned only for a text
\* that contains the pass marker.
C16_FailClosed ==
    Interpreted =>
        /\ ~recognized(response.text) =>
                /\ response.value.verified = FALSE
                /\ response.value.confidence = "high"
        /\ response.value.verified => has_marker(response.text, PASSED_MARKER)

\* a response without any status line was read
C16_Witness ==
    /\ Interpreted
    /\ response.text # <<>>
    /\ ~recognized(response.text)
    /\ ~response.value.verified

(***************************************************************************)
(* The 7-step app grant_research_app.py: the module load, the creation of  *)
(* the workflow object and step 0, Organization Verification.  Like the    *)
(* 5-step app the script is re-executed on every interaction; an unhandled *)
(* exception ends the run, st.session_state is kept.                       *)
(***************************************************************************)
NoWorkflow == [class |-> "NoneType"]
NoResult == [called |-> FALSE]
NoAgent == [class |-> <<"N", "o", "n", "e", "T", "y", "p", "e">>]

MOCK == <<"M", "o", "c", "k">>
MockAgent(name) ==
    [class |-> <<"M", "o", "c", "k", "A", "g", "e", "n", "t">>, name |-> name]
Agent(name) == [class |-> <<"A", "g", "e", "n", "t">>, name |-> name]

\* the agent globals after initialize_adk(): the imported agents, or the
\* mock objects of the except branch
initialize_adk(importable, name) ==
    IF importable THEN Agent(name) ELSE MockAgent(name)

workflow_steps(importable) ==
    LET agent(name) == IF importable THEN initialize_adk(importable, name) ELSE NoAgent
    IN  << [name |-> "Organization Verification",
            agent |-> agent("organization_verifier_agent")],
           [name |-> "Research Context Setup", agent |-> NoAgent],
           [name |-> "Grant Discovery", agent |-> agent("grant_search_agent")],
           [name |-> "Eligibility Assessment", agent |-> agent("eligibility_checker_agent")],
           [name |-> "Proposal Analysis", agent |-> agent("proposal_analyzer_agent")],
           [name |-> "Timeline Planning", agent |-> agent("deadline_tracker_agent")],
           [name |-> "Final Review", agent |-> agent("root_agent")] >>

\* GrantResearchWorkflow.__init__
GrantResearchWorkflow(importable) ==
    [class |-> "GrantResearchWorkflow",
     session |-> None,
     workflow_state |->
        [current_step |-> 0,
         steps_completed |-> <<>>,
         grant_search_results |-> <<>>,
         eligibility_results |-> <<>>,
         proposal_analysis |-> EmptyDict,
         timeline_plan |-> EmptyDict,
         human_approvals |-> EmptyDict,
         research_context |-> EmptyDict],
     workflow_steps |-> workflow_steps(importable)]

\* the first field of each registered mock response
mock_responses ==
    [step_name \in {"Organization Verification", "Grant Discovery",
                    "Eligibility Assessment", "Proposal Analysis",
                    "Timeline Planning", "Final Review"} |->
        CASE step_name = "Organization Verification" ->
                [organization_name |-> "Stanford University"]
          [] step_name = "Grant Discovery" -> [total_found |-> 3]
          [] step_name = "Eligibility Assessment" -> [overall_eligibility |-> "High"]
          [] step_name = "Proposal Analysis" -> [overall_score |-> 85]
          [] step_name = "Timeline Planning" -> [total_weeks |-> 16]
          [] step_name = "Final Review" -> [readiness |-> "Ready"]]

RECURSION_ERROR == "maximum recursion depth exceeded"

\* the depth of nested calls at which the interpreter raises RecursionError
RecursionLimit == 3

\* one frame of run_agent_step, called at the given depth of nested calls
RECURSIVE run_agent_step_frame(_, _, _)
run_agent_step_frame(agent, step_name, depth) ==
    IF agent = NoAgent
    THEN [called |-> TRUE, success |-> FALSE,
          response |-> [text |-> <<"Agent not available for ", step_name>>],
          mock |-> TRUE]
    ELSE IF ~ADK_AVAILABLE \/ contains(agent.class, MOCK)
    THEN [called |-> TRUE, success |-> TRUE,
          response |-> IF step_name \in DOMAIN mock_responses
                       THEN mock_responses[step_name]
                       ELSE [message |-> <<"Completed ", step_name, " analysis">>],
          mock |-> TRUE]
    \* the real-agent branch awaits run_agent_step again with the same
    \* arguments: the frame returns what the nested frame returns, and the
    \* frame whose call exceeds the limit catches the RecursionError in its
    \* `except Exception`
    ELSE IF depth + 1 > RecursionLimit
    THEN [called |-> TRUE, success |-> FALSE,
          response |-> [text |-> <<"Error running ", step_name, ": ", RECURSION_ERROR>>],
          mock |-> FALSE]
    ELSE run_agent_step_frame(agent, step_name, depth + 1)

\* variant: no `except Exception`, the RecursionError leaves the call
run_agent_step_uncaught(agent, step_name) ==
    IF agent # NoAgent /\ ADK_AVAILABLE /\ ~contains(agent.class, MOCK)
    THEN [called |-> TRUE, raised |-> RECURSION_ERROR]
    ELSE run_agent_step_frame(agent, step_name, 1)

run_agent_step(agent, step_name) ==
    run_agent_step_frame(agent, step_name, 1)

KEY_ERROR_AGENT_RESULTS == "KeyError: 'agent_results'"

OrganizationNames == {"", "University of Toronto", "Stanford University"}
InstitutionTypes == {"University", "Research Institute", "Non-profit Organization"}
OrganizationLocations == {"", "Toronto, Ontario", "Stanford, California"}

\* the first run of the script in a browser session: module load and
\* main() up to the creation of st.session_state.workflow
FirstRun(importable) ==
    /\ workflow = NoWorkflow
    /\ ADK_AVAILABLE' = importable
    /\ workflow' = GrantResearchWorkflow(importable)
    /\ result' = NoResult
    /\ exception' = None
    /\ UNCHANGED widgets
    /\ UNCHANGED <<app_vars, controller_vars, sessions_vars, functions_vars>>

\* a run after the user changed the input widgets of step 0
Workflow_Input(organization_name, institution_type, organization_location) ==
    /\ workflow # NoWorkflow
    /\ workflow.workflow_state.current_step = 0
    /\ widgets' = [organization_name |-> organization_name,
                   institution_type |-> institution_type,
                   organization_location |-> organization_location,
                   button |-> ""]
    /\ widgets' # [widgets EXCEPT !.button = ""]
    /\ result' = NoResult
    /\ exception' = None
    /\ UNCHANGED <<ADK_AVAILABLE, workflow>>
    /\ UNCHANGED <<app_vars, controller_vars, sessions_vars, functions_vars>>

\* sidebar button Initialize ADK Session; the constructor of the ADK
\* Session can raise, which initialize_session() catches
Workflow_InitializeSession ==
    /\ workflow # NoWorkflow
    /\ \E created \in IF workflow.session # None THEN {workflow.session}
                      ELSE IF ADK_AVAILABLE THEN {"Session", None}
                      ELSE {"MockSession"} :
            workflow' = [workflow EXCEPT !.session = created]
    /\ result' = NoResult
    /\ exception' = None
    /\ widgets' = [widgets EXCEPT !.button = "Initialize ADK Session"]
    /\ UNCHANGED ADK_AVAILABLE
    /\ UNCHANGED <<app_vars, controller_vars, sessions_vars, functions_vars>>

\* sidebar button Reset Workflow
Workflow_Reset ==
    /\ workflow # NoWorkflow
    /\ workflow' = GrantResearchWorkflow(ADK_AVAILABLE)
    /\ result' = NoResult
    /\ exception' = None
    /\ widgets' = [widgets EXCEPT !.button = "Reset Workflow"]
    /\ UNCHANGED ADK_AVAILABLE
    /\ UNCHANGED <<app_vars, controller_vars, sessions_vars, functions_vars>>

\* button Verify Organization of step 0
Workflow_VerifyOrganization ==
    /\ workflow # NoWorkflow
    /\ workflow.workflow_state.current_step = 0
    /\ widgets.organization_name # ""
    /\ LET current_step_0 == workflow.workflow_state.current_step
           step == workflow.workflow_steps[current_step_0 + 1]
       IN  /\ result' = run_agent_step(step.agent, "Organization Verification")
           /\ IF "agent_results" \in DOMAIN workflow.workflow_state
              THEN /\ workflow' = [workflow EXCEPT !.workflow_state.agent_results =
                                        Put(@, current_step_0, result')]
                   /\ exception' = None
              ELSE /\ exception' = KEY_ERROR_AGENT_RESULTS
                   /\ UNCHANGED workflow
    /\ widgets' = [widgets EXCEPT !.button = "Verify Organization"]
    /\ UNCHANGED ADK_AVAILABLE
    /\ UNCHANGED <<app_vars, controller_vars, sessions_vars, functions_vars>>

\* button Approve and Continue, rendered below the verification results by
\* the run that served Verify Organization
Workflow_ApproveAndContinue ==
    /\ workflow # NoWorkflow
    /\ workflow.workflow_state.current_step = 0
    /\ result.called
    /\ exception = None
    /\ "agent_results" \in DOMAIN workflow.workflow_state
    /\ Has(workflow.workflow_state.agent_results, 0)
    /\ workflow' = [workflow EXCEPT
            !.workflow_state.human_approvals =
                Put(@, 0, [approved |-> TRUE, decision |-> "Yes, this is correct",
                           comments |-> "", timestamp |-> now]),
            !.workflow_state.steps_completed = Append(@, 0),
            !.workflow_state.current_step = @ + 1]
    /\ result' = NoResult
    /\ exception' = None
    /\ widgets' = [widgets EXCEPT !.button = "Approve and Continue"]
    /\ UNCHANGED ADK_AVAILABLE
    /\ UNCHANGED <<app_vars, controller_vars, sessions_vars, functions_vars>>

NextWorkflow ==
    \/ \E importable \in BOOLEAN : FirstRun(importable)
    \/ \E organization_name \in OrganizationNames, institution_type \in InstitutionTypes,
          organization_location \in OrganizationLocations :
            Workflow_Input(organization_name, institution_type, organization_location)
    \/ Workflow_InitializeSession
    \/ Workflow_Reset
    \/ Workflow_VerifyOrganization

SpecWorkflow == Init /\ [][NextWorkflow]_vars

\* C18 as stated, at step 0 of the 7-step app: the run that serves Verify
\* Organization ends without an unhandled exception and offers Approve and
\* Continue, the only way on to the next step and to the completed workflow.
C18_NoOutcomeFatal ==
    result.called =>
        /\ exception = None
        /\ ENABLED Workflow_ApproveAndContinue

\* C20 as stated: in demo mode (ADK not available) run_agent_step, called
\* with the agent of the step as workflow_steps holds it, returns
\* success = True, mock = True and the mock response registered for the step.
C20_DemoModeMockResponse ==
    (result.called /\ ~ADK_AVAILABLE) =>
        /\ result.success
        /\ result.mock
        /\ result.response = mock_responses["Organization Verification"]

(***************************************************************************)
(* Two browser sessions of grant_research_app_simple.py.  Everything the   *)
(* script keeps between runs it keeps in st.session_state, and Streamlit   *)
(* gives each browser session its own st.session_state; a run of the       *)
(* script serves one session.  The records are reduced to the session that *)
(* stored them.                                                            *)
(***************************************************************************)
SESSIONS == {"tab 1", "tab 2"}

\* variant: a module-level store, one for all the sessions of the server
st_session_state_shared(s) == "tab 1"

\* the st.session_state that a run serving session s reads and writes
st_session_state(s) == s

Initialized(s) == Has(session_state[st_session_state(s)], "current_step")

\* Initialize session state
Session_FirstRun(s) ==
    /\ ~Initialized(s)
    /\ session_state' = [session_state EXCEPT ![st_session_state(s)] =
            [current_step |-> 1, workflow_data |-> EmptyDict]]
    /\ served' = [session |-> s, button |-> ""]
    /\ UNCHANGED <<app_vars, controller_vars, workflow_vars, functions_vars>>

\* the handler of the step at the cursor stores the step's record; the
\* handler of step 4 also moves the cursor to step 5
Session_Store(s) ==
    /\ Initialized(s)
    /\ LET state == session_state[st_session_state(s)]
       IN  /\ state.current_step \in DOMAIN STEP_KEY
           /\ session_state' = [session_state EXCEPT ![st_session_state(s)] =
                [current_step |-> IF state.current_step = 4
                                  THEN 5 ELSE state.current_step,
                 workflow_data |-> Put(state.workflow_data,
                                       STEP_KEY[state.current_step],
                                       [stored_by |-> s])]]
    /\ served' = [session |-> s, button |-> "Store"]
    /\ UNCHANGED <<app_vars, controller_vars, workflow_vars, functions_vars>>

Session_PreviousStep(s) ==
    /\ Initialized(s)
    /\ session_state' = [session_state EXCEPT ![st_session_state(s)].current_step =
            IF @ > 1 THEN @ - 1 ELSE @]
    /\ served' = [session |-> s, button |-> "Previous Step"]
    /\ UNCHANGED <<app_vars, controller_vars, workflow_vars, functions_vars>>

Session_ResetWorkflow(s) ==
    /\ Initialized(s)
    /\ session_state' = [session_state EXCEPT ![st_session_state(s)] =
            [current_step |-> 1, workflow_data |-> EmptyDict]]
    /\ served' = [session |-> s, button |-> "Reset Workflow"]
    /\ UNCHANGED <<app_vars, controller_vars, workflow_vars, functions_vars>>

Session_NextStep(s) ==
    /\ Initialized(s)
    /\ LET state == session_state[st_session_state(s)]
           session_can_proceed ==
                /\ state.current_step \in DOMAIN STEP_KEY
                /\ Has(state.workflow_data, STEP_KEY[state.current_step])
       IN  session_state' = [session_state EXCEPT ![st_session_state(s)].current_step =
                IF session_can_proceed /\ @ < LAST_STEP THEN @ + 1 ELSE @]
    /\ served' = [session |-> s, button |-> "Next Step"]
    /\ UNCHANGED <<app_vars, controller_vars, workflow_vars, functions_vars>>

\* a run of the script that serves session s
Session_Run(s) ==
    \/ Session_FirstRun(s)
    \/ Session_Store(s)
    \/ Session_PreviousStep(s)
    \/ Session_ResetWorkflow(s)
    \/ Session_NextStep(s)

NextSessions ==
    \/ \E s \in SESSIONS : Session_FirstRun(s)
    \/ \E s \in SESSIONS : Session_Store(s)
    \/ \E s \in SESSIONS : Session_PreviousStep(s)
    \/ \E s \in SESSIONS : Session_ResetWorkflow(s)
    \/ \E s \in SESSIONS : Session_NextStep(s)

SpecSessions == Init /\ [][NextSessions]_vars

\* C19: sessions are isolated: a run that serves one session leaves the
\* cursor and the records of every other session as they were, and the
\* records of a session are those stored by its own runs.
C19_SessionsIsolated ==
    /\ [][\A s \in SESSIONS : Session_Run(s) =>
            \A t \in SESSIONS \ {s} : session_state'[t] = session_state[t]]_vars
    /\ [](\A s \in SESSIONS :
            Has(session_state[s], "workflow_data") =>
                \A key \in DOMAIN session_state[s].workflow_data :
                    session_state[s].workflow_data[key].stored_by = s)

\* two sessions interleaved: one is at step 3 with two records, the other
\* was started later and has stored its organization at step 1
C19_Witness ==
    /\ Has(session_state["tab 1"], "current_step")
    /\ Has(session_state["tab 2"], "current_step")
    /\ session_state["tab 1"].current_step = 3
    /\ DOMAIN session_state["tab 1"].workflow_data = {"organization", "profile"}
    /\ session_state["tab 2"].current_step = 1
    /\ DOMAIN session_state["tab 2"].workflow_data = {"organization"}

(***************************************************************************)
(* The organization record of the 5-step app.                              *)
(***************************************************************************)
\* C28: in the 5-step app an organization record exists only as the record of
\* a submission with a non-empty name, type and location whose location
\* passes the Canada check, so every stored record has canada_verified =
\* TRUE; a later verification that fails (or is incomplete) leaves the
\* stored record as it is, and with it the Next Step button's ability to
\* leave step 1.
C28_RecordOnlyFromVerifiedSubmission ==
    /\ [](Has(workflow_data, "organization") =>
            /\ workflow_data["organization"].name # ""
            /\ workflow_data["organization"].type # ""
            /\ workflow_data["organization"].location # <<>>
            /\ located_in_canada(workflow_data["organization"].location)
            /\ workflow_data["organization"].canada_verified = TRUE)
    /\ [][\A org_name \in OrgNames, org_type \in OrgTypes,
             org_location \in OrgLocations, research_areas \in ResearchAreas :
            VerifyOrganization(org_name, org_type, org_location, research_areas) =>
                /\ (~Has(workflow_data, "organization")
                        /\ Has(workflow_data', "organization")) =>
                      /\ org_form_complete(org_name, org_type, org_location)
                      /\ located_in_canada(org_location)
                      /\ workflow_data'["organization"].location = org_location
                /\ (\/ ~org_form_complete(org_name, org_type, org_location)
                    \/ ~located_in_canada(org_location)) =>
                      /\ workflow_data' = workflow_data
                      /\ (can_proceed => can_proceed')]_vars

\* a verification has just failed while the record of an earlier, passed
\* verification is still stored at step 1
C28_Witness ==
    /\ current_step = 1
    /\ feedback = ORG_NOT_CANADA
    /\ request.button = "Verify Organization"
    /\ Has(workflow_data, "organization")
    /\ workflow_data["organization"].location # request.org_location
    /\ can_proceed

(***************************************************************************)
(* The functions of the agent package and of the workflow object, called   *)
(* on their own.  A call is recorded with its arguments and what it        *)
(* returned.                                                               *)
(***************************************************************************)
AgentArguments ==
    {NoAgent, MockAgent("grant_search_agent"), Agent("grant_search_agent")}

StepNames == {workflow_steps(TRUE)[i].name : i \in 1..7}

\* await workflow.run_agent_step(agent, query, step_name)
Call_run_agent_step(agent, step_name) ==
    /\ workflow # NoWorkflow
    /\ call' = [function |-> "run_agent_step", agent |-> agent,
                step_name |-> step_name,
                returned |-> run_agent_step(agent, step_name)]
    /\ UNCHANGED callback_context
    /\ UNCHANGED <<app_vars, controller_vars, workflow_vars, sessions_vars>>

get(dict, key, default) ==
    IF key \in DOMAIN dict THEN dict[key] ELSE default

\* variant: a grant without a relevance_score is selected
human_select_grants_default_high(grant_options) ==
    LET selected(g) == get(g, "relevance_score", 8) >= 8
    IN  SelectSeq(grant_options, selected)

\* [g for g in grant_options if g.get("relevance_score", 0) >= 8]
human_select_grants(grant_options) ==
    LET selected(g) == get(g, "relevance_score", 0) >= 8
    IN  SelectSeq(grant_options, selected)

\* the longest list of grant options
MaxGrants == 3

GrantOptions ==
    {[grant_name |-> "Discovery Grant", relevance_score |-> 9],
     [grant_name |-> "Insight Grant", relevance_score |-> 8],
     [grant_name |-> "Research Fellowships", relevance_score |-> 7],
     [grant_name |-> "Project Grant"]}

GrantOptionLists ==
    UNION {[1..n -> GrantOptions] : n \in 0..MaxGrants}

Call_human_select_grants(grant_options) ==
    /\ call' = [function |-> "human_select_grants", grant_options |-> grant_options,
                returned |-> human_select_grants(grant_options)]
    /\ UNCHANGED callback_context
    /\ UNCHANGED <<app_vars, controller_vars, workflow_vars, sessions_vars>>

\* the positions of the grants of a list whose relevance_score is at least 8
scored_at_least_8(grants) ==
    {i \in DOMAIN grants :
        /\ "relevance_score" \in DOMAIN grants[i]
        /\ grants[i].relevance_score >= 8}

\* C22: human_select_grants returns exactly the input grants whose
\* relevance_score is at least 8 (a grant without a score is left out), each
\* as it was given and in the order of the input; selecting from the
\* result again returns the result.
C22_SelectsScoredAtLeast8 ==
    call.function = "human_select_grants" =>
        LET kept == scored_at_least_8(call.grant_options)
            nth(k) == CHOOSE i \in kept : Cardinality({j \in kept : j <= i}) = k
        IN  /\ Len(call.returned) = Cardinality(kept)
            /\ \A k \in 1..Len(call.returned) :
                    call.returned[k] = call.grant_options[nth(k)]
            /\ human_select_grants(call.returned) = call.returned

\* a list with a selected grant after a grant without a score and a grant
\* below the threshold
C22_Witness ==
    /\ call.function = "human_select_grants"
    /\ Len(call.grant_options) = 3
    /\ "relevance_score" \notin DOMAIN call.grant_options[1]
    /\ "relevance_score" \in DOMAIN call.grant_options[2]
    /\ call.grant_options[2].relevance_score = 7
    /\ "relevance_score" \in DOMAIN call.grant_options[3]
    /\ call.grant_options[3].relevance_score = 8
    /\ call.returned = <<call.grant_options[3]>>

\* GrantDatabaseSearch.search_grants_gov: the fields vertex_grant_search reads
search_grants_gov(keywords) ==
    [source |-> "grants.gov",
     query |-> keywords,
     results |->
        << [title |-> "NSF Research in Artificial Intelligence",
            agency |-> "National Science Foundation",
            deadline |-> "2026-03-15",
            description |-> <<"Research opportunities in ", keywords,
                              " and related AI fields">>,
            eligibility |-> "Academic institutions, research organizations",
            url |-> "https://grants.gov/view-opportunity.html?oppId=12345"],
           [title |-> "NIH Innovative Research in Biomedical Sciences",
            agency |-> "National Institutes of Health",
            deadline |-> "2026-02-05",
            description |-> <<"Biomedical research including ", keywords,
                              " applications">>,
            eligibility |-> "Universities, medical schools, research institutes",
            url |-> "https://grants.gov/view-opportunity.html?oppId=12346"] >>,
     total_found |-> 2]

\* GrantDatabaseSearch.search_foundation_directory
search_foundation_directory(research_area, geographic_focus) ==
    [source |-> "foundation_directory",
     query |-> research_area,
     filters |-> [geographic_focus |-> geographic_focus],
     results |->
        << [foundation |-> "Gates Foundation",
            program |-> "Grand Challenges in Global Health",
            focus_area |-> <<"Global health applications of ", research_area>>,
            deadline |-> "Rolling basis",
            geographic_scope |-> "Global"],
           [foundation |-> "Alfred P. Sloan Foundation",
            program |-> "Research Fellowships",
            focus_area |-> <<"Early career research in ", research_area>>,
            deadline |-> "2026-06-15",
            geographic_scope |-> "United States"] >>,
     total_found |-> 2]

\* the entries appended for the grants.gov results of one keyword
gov_entries(keyword) ==
    LET gov_results == search_grants_gov(keyword).results
    IN  [i \in DOMAIN gov_results |->
            [grant_name |-> gov_results[i].title,
             granting_organization |-> gov_results[i].agency,
             relevance_score |-> 8,
             reasoning |-> <<"Keyword match: ", keyword>>,
             grant_summary |-> gov_results[i].description,
             eligibility_snapshot |-> gov_results[i].eligibility,
             deadline |-> gov_results[i].deadline,
             primary_link |-> gov_results[i].url,
             extracted_links |-> <<>>]]

\* the entries appended for the foundation results of one keyword
foundation_entries(search_json, keyword) ==
    LET foundation_results ==
            search_foundation_directory(keyword,
                get(search_json, "ngo_location_summary", "Canada")).results
    IN  [i \in DOMAIN foundation_results |->
            [grant_name |-> foundation_results[i].program,
             granting_organization |-> foundation_results[i].foundation,
             relevance_score |-> 7,
             reasoning |-> <<"Foundation match: ", keyword>>,
             grant_summary |-> foundation_results[i].focus_area,
             eligibility_snapshot |-> foundation_results[i].geographic_scope,
             deadline |-> foundation_results[i].deadline,
             primary_link |-> "",
             extracted_links |-> <<>>]]

\* the body of `for keyword in ...`, over the keywords still to process
RECURSIVE search_keywords_loop(_, _)
search_keywords_loop(search_json, keywords) ==
    IF keywords = <<>> THEN <<>>
    ELSE gov_entries(Head(keywords))
            \o foundation_entries(search_json, Head(keywords))
            \o search_keywords_loop(search_json, Tail(keywords))

\* variant: all grants.gov results first, the foundation results after them
vertex_grant_search_by_source(search_json) ==
    LET keywords == get(search_json, "search_keywords", <<>>)
        RECURSIVE gov(_)
        gov(ks) == IF ks = <<>> THEN <<>> ELSE gov_entries(Head(ks)) \o gov(Tail(ks))
        RECURSIVE foundation(_)
        foundation(ks) ==
            IF ks = <<>> THEN <<>>
            ELSE foundation_entries(search_json, Head(ks)) \o foundation(Tail(ks))
    IN  gov(keywords) \o foundation(keywords)

vertex_grant_search(search_json) ==
    search_keywords_loop(search_json, get(search_json, "search_keywords", <<>>))

\* the longest list of search keywords
MaxKeywords == 2

SearchKeywords == {"genomics", "climate"}

SearchJsons ==
    {[ngo_name |-> "University of Toronto"],
     [ngo_name |-> "University of Toronto", ngo_location_summary |-> "Toronto, Ontario"]}
    \cup {[ngo_name |-> "University of Toronto", search_keywords |-> ks] :
            ks \in UNION {[1..n -> SearchKeywords] : n \in 0..MaxKeywords}}
    \cup {[ngo_name |-> "University of Toronto",
           ngo_location_summary |-> "Toronto, Ontario", search_keywords |-> ks] :
            ks \in UNION {[1..n -> SearchKeywords] : n \in 0..MaxKeywords}}

Call_vertex_grant_search(search_json) ==
    /\ call' = [function |-> "vertex_grant_search", search_json |-> search_json,
                returned |-> vertex_grant_search(search_json)]
    /\ UNCHANGED callback_context
    /\ UNCHANGED <<app_vars, controller_vars, workflow_vars, sessions_vars>>

\* the calls of the functions, after the module load that decides
\* ADK_AVAILABLE
NextFunctions ==
    \/ \E importable \in BOOLEAN : FirstRun(importable)
    \/ \E agent \in AgentArguments, step_name \in StepNames :
            Call_run_agent_step(agent, step_name)
    \/ \E grant_options \in GrantOptionLists : Call_human_select_grants(grant_options)
    \/ \E search_json \in SearchJsons : Call_vertex_grant_search(search_json)

SpecFunctions == Init /\ [][NextFunctions]_vars

GOV_AGENCIES == <<"National Science Foundation", "National Institutes of Health">>
FOUNDATIONS == <<"Gates Foundation", "Alfred P. Sloan Foundation">>

\* C23: vertex_grant_search processes search_keywords in order and appends,
\* for each keyword, first the two grants.gov results with relevance_score 8
\* and then the two foundation-directory results with relevance_score 7;
\* without search_keywords, or with an empty list, it returns the empty
\* list; human_select_grants keeps of its output exactly the grants.gov
\* entries.
C23_GovThenFoundationPerKeyword ==
    call.function = "vertex_grant_search" =>
        LET keywords == IF "search_keywords" \in DOMAIN call.search_json
                        THEN call.search_json.search_keywords ELSE <<>>
            results == call.returned
            selected == human_select_grants(results)
        IN  /\ Len(results) = 4 * Len(keywords)
            /\ \A k \in DOMAIN keywords : \A i \in 1..2 :
                /\ results[4 * (k - 1) + i].relevance_score = 8
                /\ results[4 * (k - 1) + i].reasoning = <<"Keyword match: ", keywords[k]>>
                /\ results[4 * (k - 1) + i].granting_organization = GOV_AGENCIES[i]
                /\ results[4 * (k - 1) + 2 + i].relevance_score = 7
                /\ results[4 * (k - 1) + 2 + i].reasoning =
                        <<"Foundation match: ", keywords[k]>>
                /\ results[4 * (k - 1) + 2 + i].granting_organization = FOUNDATIONS[i]
            /\ Len(selected) = 2 * Len(keywords)
            /\ \A k \in DOMAIN keywords : \A i \in 1..2 :
                selected[2 * (k - 1) + i] = results[4 * (k - 1) + i]

\* a search over two different keywords returned eight entries
C23_Witness ==
    /\ call.function = "vertex_grant_search"
    /\ "search_keywords" \in DOMAIN call.search_json
    /\ Len(call.search_json.search_keywords) = 2
    /\ call.search_json.search_keywords[1] # call.search_json.search_keywords[2]
    /\ Len(call.returned) = 8
    /\ call.returned[5].reasoning = <<"Keyword match: ", call.search_json.search_keywords[2]>>
    /\ call.returned[4].relevance_score = 7

(***************************************************************************)
(* before_agent_callback of the root agent: _load_grant_research_context   *)
(* of agent_clean.py (load_grant_research_context) and of agent.py         *)
(* (load_grant_research_context_agent).                                    *)
(***************************************************************************)
\* variant: the default replaces a value that is present
setdefault_overwriting(dict, key, default) ==
    [k \in DOMAIN dict \cup {key} |-> IF k = key THEN default ELSE dict[k]]

\* dict.setdefault(key, default)
setdefault(dict, key, default) ==
    IF key \in DOMAIN dict THEN dict
    ELSE [k \in DOMAIN dict \cup {key} |-> IF k = key THEN default ELSE dict[k]]

DEFAULT_GRANT_PREFERENCES ==
    [research_areas |-> <<>>,
     funding_range |-> [min |-> 0, max |-> 1000000],
     organization_type |-> "academic",
     career_stage |-> "early_career",
     geographic_focus |-> "us",
     current_applications |-> <<>>,
     deadlines_tracking |-> <<>>]

HALT_REASON == "Organization is outside Canada. Workflow stopped."

\* variant: the country is compared as it is written
canada_only_gate_case_sensitive(state) ==
    LET org_info == get(state, "organization_verification", EmptyDict)
    IN  IF org_info # EmptyDict
           /\ get(org_info, "country", <<>>) # <<>>
           /\ get(org_info, "country", <<>>) # CANADA
        THEN [k \in DOMAIN state \cup {"halt_reason"} |->
                IF k = "halt_reason" THEN HALT_REASON ELSE state[k]]
        ELSE state

\* Canada-only organization validation
canada_only_gate(state) ==
    LET org_info == get(state, "organization_verification", EmptyDict)
        country == lower(get(org_info, "country", <<>>))
    IN  IF org_info # EmptyDict /\ country # <<>> /\ country # CANADA
        THEN [k \in DOMAIN state \cup {"halt_reason"} |->
                IF k = "halt_reason" THEN HALT_REASON ELSE state[k]]
        ELSE state

\* agent_clean._load_grant_research_context: the state it leaves
load_grant_research_context(state) ==
    LET s1 == setdefault(state, "grant_preferences", DEFAULT_GRANT_PREFERENCES)
        s2 == setdefault(s1, "organization_verification", EmptyDict)
        s3 == setdefault(s2, "search_history", <<>>)
        s4 == setdefault(s3, "eligibility_assessments", <<>>)
        s5 == setdefault(s4, "proposal_reviews", <<>>)
        s6 == setdefault(s5, "deadline_alerts", <<>>)
    IN  canada_only_gate(s6)

\* agent._load_grant_research_context: the state it leaves
load_grant_research_context_agent(state) ==
    LET s1 == setdefault(state, "grant_preferences", DEFAULT_GRANT_PREFERENCES)
        s3 == setdefault(s1, "search_history", <<>>)
        s4 == setdefault(s3, "eligibility_assessments", <<>>)
        s5 == setdefault(s4, "proposal_reviews", <<>>)
    IN  setdefault(s5, "deadline_alerts", <<>>)

\* what the session state holds when the callback runs: the records the
\* organization verifier leaves, preferences of the user, an earlier search
Countries ==
    {<<>>, <<"C", "a", "n", "a", "d", "a">>, <<"C", "A", "N", "A", "D", "A">>,
     <<"U", "S", "A">>}

OrganizationVerifications ==
    {EmptyDict, [name |-> "University of Toronto"]}
    \cup {[name |-> "University of Toronto", country |-> c] : c \in Countries}

StateUpdates ==
    {[key |-> "organization_verification", value |-> v] : v \in OrganizationVerifications}
    \cup {[key |-> "grant_preferences",
           value |-> [DEFAULT_GRANT_PREFERENCES EXCEPT !.geographic_focus = "canada"]],
          [key |-> "search_history", value |-> <<"genomics">>]}

\* the session state changes between two invocations of the root agent
Session_update(key, value) ==
    /\ callback_context' =
            [state |-> [k \in DOMAIN callback_context.state \cup {key} |->
                            IF k = key THEN value ELSE callback_context.state[k]]]
    /\ callback_context' # callback_context
    /\ call' = [function |-> "state update", key |-> key]
    /\ UNCHANGED <<app_vars, controller_vars, workflow_vars, sessions_vars>>

\* the root agent of agent_clean.py is invoked
Call_load_grant_research_context ==
    /\ callback_context' = [state |-> load_grant_research_context(callback_context.state)]
    /\ call' = [function |-> "_load_grant_research_context", module |-> "agent_clean",
                state |-> callback_context.state,
                state_after |-> load_grant_research_context(callback_context.state)]
    /\ UNCHANGED <<app_vars, controller_vars, workflow_vars, sessions_vars>>

\* the root agent of agent.py is invoked
Call_load_grant_research_context_agent ==
    /\ callback_context' =
            [state |-> load_grant_research_context_agent(callback_context.state)]
    /\ call' = [function |-> "_load_grant_research_context", module |-> "agent",
                state |-> callback_context.state,
                state_after |-> load_grant_research_context_agent(callback_context.state)]
    /\ UNCHANGED <<app_vars, controller_vars, workflow_vars, sessions_vars>>

\* the invocations of the root agent in one ADK session
NextCallback ==
    \/ \E update \in StateUpdates : Session_update(update.key, update.value)
    \/ Call_load_grant_research_context
    \/ Call_load_grant_research_context_agent

SpecCallback == Init /\ [][NextCallback]_vars

DEFAULT_KEYS ==
    {"grant_preferences", "search_history", "eligibility_assessments",
     "proposal_reviews", "deadline_alerts"}

\* C24: _load_grant_research_context only fills in defaults: after a call the
\* keys grant_preferences, search_history, eligibility_assessments,
\* proposal_reviews and deadline_alerts (in agent_clean.py also
\* organization_verification) exist, every value that was present before the
\* call is unchanged, and a second call changes nothing.
C24_OnlyFillsDefaults ==
    call.function = "_load_grant_research_context" =>
        /\ DEFAULT_KEYS \subseteq DOMAIN call.state_after
        /\ call.module = "agent_clean" =>
                "organization_verification" \in DOMAIN call.state_after
        /\ \A k \in DOMAIN call.state : call.state_after[k] = call.state[k]
        /\ call.module = "agent_clean" =>
                load_grant_research_context(call.state_after) = call.state_after
        /\ call.module = "agent" =>
                load_grant_research_context_agent(call.state_after) = call.state_after

\* the callback ran on a state that held preferences of the user and a
\* search history but no assessments, and only the missing keys were added
C24_Witness ==
    /\ call.function = "_load_grant_research_context"
    /\ "grant_preferences" \in DOMAIN call.state
    /\ call.state["grant_preferences"] # DEFAULT_GRANT_PREFERENCES
    /\ "search_history" \in DOMAIN call.state
    /\ "eligibility_assessments" \notin DOMAIN call.state
    /\ call.state_after["grant_preferences"] = call.state["grant_preferences"]
    /\ call.state_after["search_history"] = <<"genomics">>
    /\ call.state_after["eligibility_assessments"] = <<>>

\* C25: the Canada-only gate of agent_clean.py sets state['halt_reason'] if
\* and only if organization_verification holds a non-empty country that
\* differs from 'canada' when case is ignored; without a record, with an
\* empty record, without a country, with an empty country or with Canada in
\* any case it sets nothing, and a halt_reason of an earlier call is not
\* cleared.
C25_HaltOnlyOutsideCanada ==
    (call.function = "_load_grant_research_context" /\ call.module = "agent_clean") =>
        LET org_info == IF "organization_verification" \in DOMAIN call.state
                        THEN call.state["organization_verification"] ELSE EmptyDict
            country == IF "country" \in DOMAIN org_info THEN org_info.country ELSE <<>>
            outside == country # <<>> /\ lower(country) # <<"c", "a", "n", "a", "d", "a">>
        IN  /\ ("halt_reason" \in DOMAIN call.state_after) <=>
                    ("halt_reason" \in DOMAIN call.state \/ outside)
            /\ outside => call.state_after["halt_reason"] = HALT_REASON
            /\ "halt_reason" \in DOMAIN call.state =>
                    call.state_after["halt_reason"] = call.state["halt_reason"]

\* the gate ran on a record with the country written CANADA and set nothing
C25_Witness ==
    /\ call.function = "_load_grant_research_context"
    /\ call.module = "agent_clean"
    /\ "organization_verification" \in DOMAIN call.state
    /\ "country" \in DOMAIN call.state["organization_verification"]
    /\ call.state["organization_verification"].country = <<"C", "A", "N", "A", "D", "A">>
    /\ "halt_reason" \notin DOMAIN call.state_after

(***************************************************************************)
(* Steps 1 to 6 of grant_research_app.py.  No run of the script leaves     *)
(* step 0 (Verify Organization ends in the KeyError above), so the         *)
(* handlers of the later steps are checked from the session states they    *)
(* are written for: the workflow object as the approving handlers of the   *)
(* steps before leave it.  The module never imports `time`: a handler      *)
(* ends in a NameError at its first time.sleep, with what it has written   *)
(* to the workflow object kept in st.session_state.                        *)
(***************************************************************************)
NAME_ERROR_TIME == "NameError: name 'time' is not defined"

ResearchAreaSelections == {<<>>, <<"Computer Science">>}
ProjectTexts == {"", "Learning-based grant matching"}
FinalDecisions == {"Yes, approve and export", "No, needs revision", "Save as draft"}

research_context_record(research_areas, project_description) ==
    [research_areas |-> research_areas,
     career_stage |-> "Graduate Student",
     organization_type |-> "Academic Institution",
     funding_range |-> [min |-> 50000, max |-> 500000],
     geographic_focus |-> "US Federal",
     project_description |-> project_description,
     timestamp |-> now]

\* the approval the approving handler of step i records
step_approval(i) ==
    CASE i = 0 -> [approved |-> TRUE, decision |-> "Yes, this is correct",
                   comments |-> "", timestamp |-> now]
      [] i = 1 -> [approved |-> TRUE, timestamp |-> now,
                   context |-> "Research context defined and approved"]
      [] i = 2 -> [approved |-> TRUE, selected_grants |-> <<0>>, timestamp |-> now]
      [] i = 3 -> [approved |-> TRUE, final_grants |-> <<0>>, timestamp |-> now]
      [] i = 4 -> [approved |-> TRUE,
                   selected_grant |-> "NSF Research in Artificial Intelligence",
                   decision |-> "Yes, create timeline", timestamp |-> now]
      [] OTHER -> [approved |-> TRUE, feedback |-> None, timestamp |-> now]

\* the workflow object of a session in which steps 0 .. k-1 were approved
workflow_at_step(k) ==
    [GrantResearchWorkflow(FALSE) EXCEPT
        !.workflow_state =
            [current_step |-> k,
             steps_completed |-> [i \in 1..k |-> i - 1],
             grant_search_results |->
                IF k > 2 THEN <<[title |-> "NSF Research in Artificial Intelligence",
                                 agency |-> "National Science Foundation"]>>
                ELSE <<>>,
             eligibility_results |->
                IF k > 3 THEN <<[grant |-> "NSF Research in Artificial Intelligence",
                                 eligibility_score |-> 85]>>
                ELSE <<>>,
             proposal_analysis |->
                IF k > 4 THEN [overall_score |-> 85] ELSE EmptyDict,
             timeline_plan |->
                IF k > 5 THEN [total_weeks |-> 16] ELSE EmptyDict,
             human_approvals |-> [i \in 0..(k - 1) |-> step_approval(i)],
             research_context |->
                IF k > 1 THEN research_context_record(<<"Computer Science">>,
                                    "Learning-based grant matching")
                ELSE EmptyDict]]

InitSteps ==
    /\ InitExceptWorkflow
    /\ workflow \in {NoWorkflow} \cup {workflow_at_step(k) : k \in 0..6}

\* button Confirm Research Context of step 1
Workflow_ConfirmResearchContext(research_areas, project_description) ==
    /\ workflow # NoWorkflow
    /\ workflow.workflow_state.current_step = 1
    /\ IF research_areas # <<>> /\ project_description # ""
       THEN /\ workflow' = [workflow EXCEPT
                    !.workflow_state.research_context =
                        research_context_record(research_areas, project_description),
                    !.workflow_state.human_approvals = Put(@, 1, step_approval(1)),
                    !.workflow_state.steps_completed = Append(@, 1),
                    !.workflow_state.current_step = @ + 1]
            /\ exception' = NAME_ERROR_TIME
       ELSE /\ exception' = None
            /\ UNCHANGED workflow
    /\ result' = NoResult
    /\ widgets' = [widgets EXCEPT !.button = "Confirm Research Context"]
    /\ UNCHANGED ADK_AVAILABLE
    /\ UNCHANGED <<app_vars, controller_vars, sessions_vars, functions_vars>>

\* button Search for Grants of step 2
Workflow_SearchForGrants ==
    /\ workflow # NoWorkflow
    /\ workflow.workflow_state.current_step = 2
    /\ exception' = NAME_ERROR_TIME
    /\ result' = NoResult
    /\ widgets' = [widgets EXCEPT !.button = "Search for Grants"]
    /\ UNCHANGED <<ADK_AVAILABLE, workflow>>
    /\ UNCHANGED <<app_vars, controller_vars, sessions_vars, functions_vars>>

\* button Check Eligibility of step 3
Workflow_CheckEligibility ==
    /\ workflow # NoWorkflow
    /\ workflow.workflow_state.current_step = 3
    /\ workflow.workflow_state.grant_search_results # <<>>
    /\ exception' = NAME_ERROR_TIME
    /\ result' = NoResult
    /\ widgets' = [widgets EXCEPT !.button = "Check Eligibility"]
    /\ UNCHANGED <<ADK_AVAILABLE, workflow>>
    /\ UNCHANGED <<app_vars, controller_vars, sessions_vars, functions_vars>>

\* button Analyze Proposal Requirements of step 4
Workflow_AnalyzeProposalRequirements ==
    /\ workflow # NoWorkflow
    /\ workflow.workflow_state.current_step = 4
    /\ workflow.workflow_state.eligibility_results # <<>>
    /\ exception' = NAME_ERROR_TIME
    /\ result' = NoResult
    /\ widgets' = [widgets EXCEPT !.button = "Analyze Proposal Requirements"]
    /\ UNCHANGED <<ADK_AVAILABLE, workflow>>
    /\ UNCHANGED <<app_vars, controller_vars, sessions_vars, functions_vars>>

\* button Create Timeline of step 5
Workflow_CreateTimeline ==
    /\ workflow # NoWorkflow
    /\ workflow.workflow_state.current_step = 5
    /\ workflow.workflow_state.proposal_analysis # EmptyDict
    /\ exception' = NAME_ERROR_TIME
    /\ result' = NoResult
    /\ widgets' = [widgets EXCEPT !.button = "Create Timeline"]
    /\ UNCHANGED <<ADK_AVAILABLE, workflow>>
    /\ UNCHANGED <<app_vars, controller_vars, sessions_vars, functions_vars>>

\* variant: the step is counted as completed a second time
Workflow_CompleteWorkflow_twice(final_decision) ==
    /\ workflow # NoWorkflow
    /\ workflow.workflow_state.current_step = 6
    /\ Has(workflow.workflow_state.research_context, "research_areas")
    /\ workflow' = [workflow EXCEPT
            !.workflow_state.human_approvals =
                Put(@, 6, [approved |-> final_decision = "Yes, approve and export",
                           decision |-> final_decision,
                           revision_notes |-> IF final_decision = "No, needs revision"
                                              THEN "" ELSE None,
                           timestamp |-> now]),
            !.workflow_state.steps_completed = Append(Append(@, 6), 6),
            !.workflow_state.current_step = @ + 1]
    /\ exception' = NAME_ERROR_TIME
    /\ result' = NoResult
    /\ widgets' = [widgets EXCEPT !.button = "Complete Workflow"]
    /\ UNCHANGED ADK_AVAILABLE
    /\ UNCHANGED <<app_vars, controller_vars, sessions_vars, functions_vars>>

\* button Complete Workflow of step 6
Workflow_CompleteWorkflow(final_decision) ==
    /\ workflow # NoWorkflow
    /\ workflow.workflow_state.current_step = 6
    /\ Has(workflow.workflow_state.research_context, "research_areas")
    /\ workflow' = [workflow EXCEPT
            !.workflow_state.human_approvals =
                Put(@, 6, [approved |-> final_decision = "Yes, approve and export",
                           decision |-> final_decision,
                           revision_notes |-> IF final_decision = "No, needs revision"
                                              THEN "" ELSE None,
                           timestamp |-> now]),
            !.workflow_state.steps_completed = Append(@, 6),
            !.workflow_state.current_step = @ + 1]
    /\ exception' = NAME_ERROR_TIME
    /\ result' = NoResult
    /\ widgets' = [widgets EXCEPT !.button = "Complete Workflow"]
    /\ UNCHANGED ADK_AVAILABLE
    /\ UNCHANGED <<app_vars, controller_vars, sessions_vars, functions_vars>>

\* button Download Complete Report of the completed workflow
Workflow_DownloadCompleteReport ==
    /\ workflow # NoWorkflow
    /\ workflow.workflow_state.current_step >= Len(workflow.workflow_steps)
    /\ exception' = None
    /\ result' = NoResult
    /\ widgets' = [widgets EXCEPT !.button = "Download Complete Report"]
    /\ UNCHANGED <<ADK_AVAILABLE, workflow>>
    /\ UNCHANGED <<app_vars, controller_vars, sessions_vars, functions_vars>>

NextSteps ==
    \/ \E importable \in BOOLEAN : FirstRun(importable)
    \/ \E organization_name \in OrganizationNames, institution_type \in InstitutionTypes,
          organization_location \in OrganizationLocations :
            Workflow_Input(organization_name, institution_type, organization_location)
    \/ Workflow_InitializeSession
    \/ Workflow_Reset
    \/ Workflow_VerifyOrganization
    \/ \E research_areas \in ResearchAreaSelections, project_description \in ProjectTexts :
            Workflow_ConfirmResearchContext(research_areas, project_description)
    \/ Workflow_SearchForGrants
    \/ Workflow_CheckEligibility
    \/ Workflow_AnalyzeProposalRequirements
    \/ Workflow_CreateTimeline
    \/ \E final_decision \in FinalDecisions : Workflow_CompleteWorkflow(final_decision)
    \/ Workflow_DownloadCompleteReport

SpecSteps == InitSteps /\ [][NextSteps]_vars

====
